---------------------------- MODULE Spec2Model ----------------------------
(***************************************************************************)
(* CogSocket (src/cogsocket.js): a JSON request/response/event protocol    *)
(* engine over one WebSocket.  The model follows the JavaScript source     *)
(* statement by statement.  A handler or API call is one atomic action     *)
(* (the engine is single threaded and handlers run to completion).         *)
(*                                                                         *)
(* JavaScript values are abstracted to records [cls, number, msg]:         *)
(*   cls = "undefined" | "null" | "data" | "function" | "Error"            *)
(*   number : the `number` member of an Error (0 when it has none)         *)
(*   msg    : the payload of a datum / the message of an Error             *)
(* The tables priv.pendingRequests, priv.listeners and priv.eventSenders   *)
(* are plain object literals ({}), so a lookup of a key the table does not *)
(* own falls through to Object.prototype.                                  *)
(***************************************************************************)
EXTENDS Integers, Sequences, FiniteSets, TLC

\* ------------------------------------------------------------------ bounds
\* Stands for 0x7FFFFFFF, the largest id sendRequest assigns before it wraps.
MaxId == 2
\* Requests with a continuation sent over one run.
MaxReq == 3
\* Listeners one ListenerRegistration holds.
MaxListeners == 2
\* Invocations of one continuation that are recorded.
MaxCalls == 2
\* Unmatched unlisten frames recorded per path.
MaxUnmatched == 1

\* ------------------------------------------------------------------ values
Val(c, n, m) == [cls |-> c, number |-> n, msg |-> m]
Undefined == Val("undefined", 0, "")
Null == Val("null", 0, "")
Datum(m) == Val("data", 0, m)
Function == Val("function", 0, "")
\* new Error(msg) with err.number = n (n = 0: no number member, or the member
\* is 0: `body.number ? ...` takes both the same way)
Error(n, m) == Val("Error", n, m)
\* The engine's own failures: property access on undefined, calling a non-function
TypeError == Error(0, "TypeError")
\* A marker: nothing was thrown
NoEx == Val("none", 0, "")

\* What user code (a member of the local graph, a continuation, a listener)
\* may raise: an Error with a number, an Error without, a string, null.
Thrown == {Error(7, "coded"), Error(0, "plain"), Datum("boom"), Null}

\* An array of n elements; the model keeps the empty array and ["v1", "v2"]
Array(n, m) == Val("array", n, m)
EmptyArray == Array(0, "")
PairArray == Array(2, "v1,v2")
Elements(a) == IF a = PairArray THEN <<Datum("v1"), Datum("v2")>> ELSE <<>>

\* The body is always passed as the single argument
CallArgsSingle(body) == <<body>>

\* Array.isArray(body) ? method.apply(obj, body) : method.call(obj, body):
\* the positional arguments of the call
CallArgs(body) == IF body.cls = "array" THEN Elements(body) ELSE <<body>>

\* eventArgs: undefined for an absent body (listener.apply then passes no
\* argument), the body itself when it is an array, else [body]
EventArgs(body) ==
  IF body = Undefined THEN <<>>
  ELSE IF body.cls = "array" THEN Elements(body)
  ELSE <<body>>

\* Payloads of inbound frames
Bodies == {Undefined, Datum("v1"), Datum("v2"), EmptyArray, PairArray}

\* JavaScript truthiness of a value: the empty string is falsy
Truthy(v) == v.cls \in {"data", "function", "Error", "object", "array"} /\ v # Val("data", 0, "")

\* ------------------------------------------------------------------- paths
\* A path is the sequence of its '/'-separated parts, as String.split gives
\* them: "sensor/changed/" is <<"sensor", "changed", "">>.  The raw path is
\* the key of priv.listeners and priv.eventSenders.
EventPath == <<"sensor", "changed">>
EventPathSlash == <<"sensor", "changed", "">>
ProtoPath == <<"toString">>
NoPath == <<>>
\* "@/hello": the handshake operation of the connection object
HelloPath == <<"@", "hello">>

\* Paths the application passes to addListener / removeListener
ApiPaths == {EventPath, ProtoPath}

\* Paths of inbound frames
InPaths == {<<"mode">>, <<"mode", "">>, <<"missing">>, <<"nosuch", "x">>, <<"bad">>, <<"op">>,
            HelloPath, EventPath, ProtoPath}

\* Members every object literal inherits from Object.prototype; the one the
\* model keeps is toString, a function whose length is 0.
ObjectPrototypeKeys == {"toString"}

IsInherited(path) == Len(path) = 1 /\ path[1] \in ObjectPrototypeKeys

\* Listener callables of the application
Listeners == {"f", "g"}
NoListener == "none"

\* ------------------------------------------------------------------- state
VARIABLES
  open,             \* this._priv exists (close() deletes it)
  closeCalls,       \* calls of websocket.close() made by the engine
  root,             \* the root object given to the constructor: TRUE, or FALSE for none
  heap,             \* the data members of the root object: name -> value
  requestId,        \* priv.requestId
  pendingRequests,  \* priv.pendingRequests: id -> the request (its serial) whose continuation it holds
  listeners,        \* priv.listeners: path -> sequence of listeners
  eventSenders,     \* priv.eventSenders: the paths that hold a sender
  attached,         \* the senders attached to the graph's event sources: [source, sender]
  remoteInfo,       \* priv.remoteInfo (Undefined: not set)
  localInfo,        \* priv.localInfo: which computation made the record it holds (0: none yet)
  issued,           \* history: the id of the 1st, 2nd, ... request sent with a continuation
  calls,            \* history: how often the continuation of each such request was invoked
  answered,         \* history: the requests the peer has answered
  net,              \* history: per path, listen frames sent minus unlisten frames sent
  peerListens,      \* history: the paths with an inbound listen handled since the last inbound unlisten
  out,              \* the frames the last operation sent, in order
  inv,              \* the continuations the last operation invoked: <<[req, arg]>>
  heard,            \* the listeners the last operation invoked, in order: <<[fn, args]>>
  applied,          \* the methods of the local graph the last operation invoked: <<[obj, method, args, ret]>>
  escaped,          \* the last operation let an exception escape to its caller
  caught,           \* the last frame handler caught an exception
  last,             \* the last operation and its input
  scenario          \* the progress of a run of N addListener, then N removeListener calls

graph == <<root, heap, attached>>
tables == <<requestId, pendingRequests, listeners, eventSenders, remoteInfo, localInfo>>
engine == <<open, closeCalls, graph, tables>>
history == <<issued, calls, answered, net, peerListens>>
step == <<out, inv, heard, applied, escaped, caught, last>>
vars == <<engine, history, step, scenario>>

\* ------------------------------------------------------------------ frames
Frame(t, i, p, b, e) == [type |-> t, id |-> i, path |-> p, body |-> b, error |-> e]
\* The 4 bytes 00 00 E0 80
Sentinel == Frame("binary", 0, NoPath, Undefined, 0)

\* The step taken last.  raised, coded: what the handling of the request
\* raised on the peer and whether that error has a number member; args: the
\* arguments of the emission on the peer.
Op(o, f, r) == [op |-> o, frame |-> f, listener |-> NoListener, cont |-> FALSE, re |-> r,
                raised |-> Val("none", 0, ""), coded |-> FALSE, args |-> <<>>]
ApiOp(o, p, l, c) == [op |-> o, frame |-> Frame("", 0, p, Undefined, 0), listener |-> l,
                      cont |-> c, re |-> 0,
                      raised |-> Val("none", 0, ""), coded |-> FALSE, args |-> <<>>]

\* ------------------------------------------------------------------ tables
\* tbl[key] on an object literal: the table's own entry, else what
\* Object.prototype has under that name, else undefined.
OwnPath(tbl, path) == path \in DOMAIN tbl

\* The table without its entry for key (delete tbl[key]; no effect on a key
\* the table does not own)
Delete(tbl, key) == [k \in DOMAIN tbl \ {key} |-> tbl[k]]

\* The table with tbl[key] = v
Assign(tbl, key, v) == [k \in DOMAIN tbl \cup {key} |-> IF k = key THEN v ELSE tbl[k]]

\* array.splice(i, 1)
Splice(s, i) == [k \in 1..(Len(s) - 1) |-> IF k < i THEN s[k] ELSE s[k + 1]]

\* The index of the first element of s that is x, 0 when there is none
IndexOf(s, x) == IF \E k \in 1..Len(s) : s[k] = x
                 THEN CHOOSE k \in 1..Len(s) : s[k] = x /\ \A j \in 1..(k - 1) : s[j] # x
                 ELSE 0

\* ------------------------------------------------------------- sendRequest
\* A counter that wraps one id before the maximum
NextRequestIdEarly(rid) == IF rid + 1 >= MaxId THEN 1 ELSE rid + 1

\* requestId = ++priv.requestId; if (requestId > 0x7FFFFFFF) requestId = 1
NextRequestId(rid) == IF rid + 1 > MaxId THEN 1 ELSE rid + 1

\* A sendRequest that assigns an id to every request
sendRequestAlways(type, path, cont, body) ==
  LET rid == NextRequestId(requestId)
      serial == Len(issued) + 1
  IN [id |-> rid,
      requestId |-> rid,
      pendingRequests |-> Assign(pendingRequests, rid, serial),
      issued |-> Append(issued, rid),
      calls |-> Append(calls, 0),
      answered |-> Append(answered, FALSE),
      frame |-> Frame(type, rid, path, body, 0)]

\* What sendRequest does on an open engine: the id it assigns (0: none), the
\* tables after it and the frame it sends.
sendRequest(type, path, cont, body) ==
  LET rid == IF cont THEN NextRequestId(requestId) ELSE 0
      serial == Len(issued) + 1
  IN [id |-> rid,
      requestId |-> IF cont THEN rid ELSE requestId,
      pendingRequests |-> IF cont THEN Assign(pendingRequests, rid, serial) ELSE pendingRequests,
      issued |-> IF cont THEN Append(issued, rid) ELSE issued,
      calls |-> IF cont THEN Append(calls, 0) ELSE calls,
      answered |-> IF cont THEN Append(answered, FALSE) ELSE answered,
      frame |-> Frame(type, rid, path, body, 0)]

\* The history of listen / unlisten frames after the frames fs were sent
Delta(fs, p) == Cardinality({i \in 1..Len(fs) : fs[i].type = "listen" /\ fs[i].path = p})
              - Cardinality({i \in 1..Len(fs) : fs[i].type = "unlisten" /\ fs[i].path = p})
NetAfter(fs) == [p \in DOMAIN net |-> net[p] + Delta(fs, p)]

\* A call of an API method on an engine that was closed: `priv` is undefined
\* and the first access of a member of it raises a TypeError to the caller.
ClosedCall(o) ==
  /\ ~open
  /\ out' = <<>> /\ inv' = <<>> /\ heard' = <<>> /\ applied' = <<>> /\ escaped' = TRUE /\ caught' = FALSE
  /\ last' = o
  /\ UNCHANGED <<engine, history>>

\* The effects of a sendRequest call r made by an API method, s the listener table after it
Sent(sr, s, o) ==
  \E r \in {sr} :
  /\ requestId' = r.requestId
  /\ pendingRequests' = r.pendingRequests
  /\ listeners' = s
  /\ issued' = r.issued /\ calls' = r.calls /\ answered' = r.answered
  /\ out' = <<r.frame>>
  /\ net' = NetAfter(<<r.frame>>)
  /\ peerListens' = peerListens
  /\ inv' = <<>> /\ heard' = <<>> /\ applied' = <<>> /\ escaped' = FALSE /\ caught' = FALSE
  /\ last' = o
  /\ UNCHANGED <<open, closeCalls, graph, eventSenders, remoteInfo, localInfo>>

\* An API method that sends nothing: the listener table becomes s, and the
\* continuation, when there is one, is called at once and raises ex (NoEx: returns)
Immediate(s, cont, ex, o) ==
  /\ listeners' = s
  /\ out' = <<>>
  /\ inv' = IF cont THEN <<[req |-> 0, arg |-> Undefined]>> ELSE <<>>
  /\ heard' = <<>> /\ applied' = <<>>
  /\ escaped' = (cont /\ ex # NoEx)
  /\ caught' = FALSE
  /\ last' = o
  /\ UNCHANGED <<open, closeCalls, graph, requestId, pendingRequests, eventSenders,
                 remoteInfo, localInfo, history>>

\* Room for one more request with a continuation in the history
Room(cont) == cont => Len(issued) < MaxReq

\* CogSocket.prototype.get / put / post
Request(type, path, body, cont) ==
  LET o == ApiOp(type, path, NoListener, cont) IN
  \/ ClosedCall(o)
  \/ /\ open /\ Room(cont)
     /\ Sent(sendRequest(type, path, cont, body), listeners, o)

\* CogSocket.prototype.addListener
addListener(path, listener, cont, ex) ==
  LET o == ApiOp("addListener", path, listener, cont) IN
  \/ ClosedCall(o)
  \/ /\ open
     /\ IF OwnPath(listeners, path)
        THEN \* already subscribed: listeners.push(listener); oncomplete()
             /\ Len(listeners[path]) < MaxListeners
             /\ Immediate([listeners EXCEPT ![path] = Append(@, listener)], cont, ex, o)
        ELSE IF IsInherited(path)
        THEN \* priv.listeners[path] is Object.prototype's function: it has no push
             /\ out' = <<>> /\ inv' = <<>> /\ heard' = <<>> /\ applied' = <<>>
             /\ escaped' = TRUE /\ caught' = FALSE
             /\ last' = o
             /\ UNCHANGED <<engine, history>>
        ELSE /\ Room(cont)
             /\ Sent(sendRequest("listen", path, cont, Undefined),
                     Assign(listeners, path, <<listener>>), o)

\* The registration of removeListener's path after the loop that removes
\* the first occurrence of listener
Removed(ls, listener) ==
  IF listener # NoListener /\ IndexOf(ls, listener) # 0
  THEN Splice(ls, IndexOf(ls, listener))
  ELSE ls

\* CogSocket.prototype.removeListener (listener = NoListener: none given)
removeListener(path, listener, cont, ex) ==
  LET o == ApiOp("removeListener", path, listener, cont) IN
  \/ ClosedCall(o)
  \/ /\ open
     /\ IF OwnPath(listeners, path)
        THEN LET ls == Removed(listeners[path], listener) IN
             IF listener = NoListener \/ Len(ls) = 0
             THEN /\ Room(cont)
                  /\ Sent(sendRequest("unlisten", path, cont, Undefined),
                          Delete(listeners, path), o)
             ELSE Immediate([listeners EXCEPT ![path] = ls], cont, ex, o)
        ELSE IF IsInherited(path)
        THEN \* the inherited function is truthy and its length is 0: the loop
             \* finds nothing, the delete removes nothing, unlisten is sent
             /\ Room(cont)
             /\ net[path] > 0 - MaxUnmatched
             /\ Sent(sendRequest("unlisten", path, cont, Undefined), listeners, o)
        ELSE Immediate(listeners, cont, ex, o)

\* A close that closes the websocket on every call
closeAgain ==
  /\ closeCalls' = closeCalls + 1
  /\ open' = FALSE
  /\ requestId' = 0
  /\ pendingRequests' = <<>>
  /\ listeners' = <<>>
  /\ eventSenders' = {}
  /\ remoteInfo' = Undefined
  /\ localInfo' = 0
  /\ out' = <<>> /\ inv' = <<>> /\ heard' = <<>> /\ applied' = <<>> /\ escaped' = FALSE /\ caught' = FALSE
  /\ last' = ApiOp("close", NoPath, NoListener, FALSE)
  /\ UNCHANGED <<graph, history>>

\* CogSocket.prototype.close
close ==
  /\ closeCalls' = IF open THEN closeCalls + 1 ELSE closeCalls
  /\ open' = FALSE
  /\ requestId' = 0
  /\ pendingRequests' = <<>>
  /\ listeners' = <<>>
  /\ eventSenders' = {}
  /\ remoteInfo' = Undefined
  /\ localInfo' = 0
  /\ out' = <<>> /\ inv' = <<>> /\ heard' = <<>> /\ applied' = <<>> /\ escaped' = FALSE /\ caught' = FALSE
  /\ last' = ApiOp("close", NoPath, NoListener, FALSE)
  /\ UNCHANGED <<graph, history>>

\* ---------------------------------------------------------- the local graph
\* The root object the model gives the constructor (when it gives one):
\*   mode      a data member, writable;  further data members appear when a
\*             put assigns them (heap holds the data members)
\*   bad       an accessor member whose getter and setter may raise
\*   op        a method that may raise, non-writable
\*   sensor    an event emitter (addListener / removeListener), non-writable
\* and, under the reserved prefix, the frozen ConnectionObject with hello.
Object(name) == Val("object", 0, name)
Method(name) == Val("function", 0, name)
RootObject == Object("root")
SensorObject == Object("sensor")
ConnectionObject == Object("connection")

Ok(v) == [ex |-> NoEx, val |-> v]
Raise(x) == [ex |-> x, val |-> Undefined]

\* obj[name]; x is what the member's user code raises (NoEx: it returns)
GetMember(obj, name, x) ==
  IF obj.cls \in {"undefined", "null"} THEN Raise(TypeError)
  ELSE IF obj = RootObject /\ name = "bad" THEN (IF x # NoEx THEN Raise(x) ELSE Ok(Datum("v1")))
  ELSE IF obj = RootObject /\ name = "op" THEN Ok(Method("op"))
  ELSE IF obj = RootObject /\ name = "sensor" THEN Ok(SensorObject)
  ELSE IF obj = RootObject /\ name \in DOMAIN heap THEN Ok(heap[name])
  ELSE IF obj = SensorObject /\ name \in {"addListener", "removeListener"} THEN Ok(Method(name))
  ELSE IF obj = ConnectionObject /\ name = "hello" THEN Ok(Method("hello"))
  ELSE IF name \in ObjectPrototypeKeys THEN Ok(Method(name))
  ELSE Ok(Undefined)

\* obj[name] = v: the data members of the root after it.  An assignment to a
\* non-writable member, to a member of a frozen object or of a primitive is
\* ignored (the file is not in strict mode).
PutMember(obj, name, v, x) ==
  IF obj.cls \in {"undefined", "null"} THEN [ex |-> TypeError, heap |-> heap]
  ELSE IF obj = RootObject /\ name = "bad" THEN [ex |-> x, heap |-> heap]
  ELSE IF obj = RootObject /\ name \notin {"op", "sensor"}
       THEN [ex |-> NoEx, heap |-> Assign(heap, name, v)]
  ELSE [ex |-> NoEx, heap |-> heap]

\* This endpoint's identity record as the n-th computation made it
InfoRecord(n) == Val("object", n, "localInfo")

\* A handshake that computes the identity record anew on every call
helloRecomputes(args) ==
  LET record == IF localInfo < 2 THEN localInfo + 1 ELSE localInfo
  IN [val |-> InfoRecord(record),
      remoteInfo |-> IF Len(args) > 0 THEN args[1] ELSE Undefined,
      localInfo |-> record]

\* ConnectionObject.hello(info) on an open engine: priv.remoteInfo = info;
\* priv.localInfo is computed if it is not set; it is returned
hello(args) ==
  LET record == IF localInfo = 0 THEN 1 ELSE localInfo
  IN [val |-> InfoRecord(record),
      remoteInfo |-> IF Len(args) > 0 THEN args[1] ELSE Undefined,
      localInfo |-> record]

\* method.apply(obj, args): what it returns or raises, and priv's identity
\* records after it.  hello is ConnectionObject.hello (in Node: `process`
\* exists); an emitter's addListener refuses an argument that is no function.
Invoke(method, args, x) ==
  LET same == [ex |-> NoEx, val |-> Undefined, remoteInfo |-> remoteInfo, localInfo |-> localInfo]
  IN IF method.cls # "function" THEN [same EXCEPT !.ex = TypeError]
     ELSE IF method.msg = "op"
          THEN (IF x # NoEx THEN [same EXCEPT !.ex = x] ELSE [same EXCEPT !.val = Datum("ret")])
     ELSE IF method.msg = "hello"
          THEN [same EXCEPT !.val = hello(args).val,
                            !.remoteInfo = hello(args).remoteInfo,
                            !.localInfo = hello(args).localInfo]
     ELSE IF method.msg \in ObjectPrototypeKeys THEN [same EXCEPT !.val = Datum("[object Object]")]
     ELSE [same EXCEPT !.ex = TypeError]

\* ---------------------------------------------------------------- parsePath
\* The loop of parsePath: obj = obj[parts[i]] for all parts but the last
RECURSIVE Walk(_, _, _, _)
Walk(obj, parts, i, x) ==
  IF i >= Len(parts) THEN Ok(obj)
  ELSE LET g == GetMember(obj, parts[i], x)
       IN IF g.ex # NoEx THEN g ELSE Walk(g.val, parts, i + 1, x)

\* path.replace(/\/$/, ""): one trailing slash removed
StripSlash(path) ==
  IF Len(path) >= 2 /\ path[Len(path)] = "" THEN SubSeq(path, 1, Len(path) - 1) ELSE path

\* parsePath on an open engine: [ex, obj, prop]
parsePath(path, x) ==
  LET conn == Len(path) >= 2 /\ path[1] = "@"
      start == IF conn THEN ConnectionObject ELSE IF root THEN RootObject ELSE Null
      parts == StripSlash(IF conn THEN Tail(path) ELSE path)
      w == Walk(start, parts, 1, x)
  IN IF ~Truthy(start) THEN [ex |-> Error(0, "No root object is provided"), obj |-> Undefined, prop |-> ""]
     ELSE IF path = NoPath THEN [ex |-> TypeError, obj |-> Undefined, prop |-> ""]
     ELSE [ex |-> w.ex, obj |-> w.val, prop |-> parts[Len(parts)]]

\* ------------------------------------------------------------- sendResponse
\* JSON.stringify leaves out a member whose value is undefined or a function
WireBody(v) == IF v.cls \in {"undefined", "function"} THEN Undefined ELSE v

\* The frames sendResponse(requestId, body) sends on an open engine
sendResponse(rid, body) ==
  IF rid = 0 THEN <<>>
  ELSE IF body.cls = "Error"
       THEN <<Frame("resp", rid, NoPath, Datum(body.msg), IF body.number # 0 THEN body.number ELSE 0 - 1)>>
       ELSE <<Frame("resp", rid, NoPath, WireBody(body), 0)>>

\* ------------------------------------------------------------ socketMessage
\* What the try block of socketMessage has done when it is left: the value
\* raised (NoEx: it ran to its end), the frames sent and the state.
Same == [ex |-> NoEx, out |-> <<>>, pendingRequests |-> pendingRequests,
         eventSenders |-> eventSenders, attached |-> attached, heap |-> heap,
         remoteInfo |-> remoteInfo, localInfo |-> localInfo, calls |-> calls,
         inv |-> <<>>, heard |-> <<>>, applied |-> <<>>, listeners |-> listeners]
Throw(x) == [Same EXCEPT !.ex = x]
\* sendResponse.call(this, requestId) as the last statement of a case
Ack(f) == [Same EXCEPT !.out = sendResponse(f.id, Undefined)]

\* An id that is no number but the name of a member of Object.prototype
\* ("toString"): pendingRequests[id] is then an inherited function.
InheritedId == 0 - 1

\* case "get"
TryGet(f, x) ==
  LET p == parsePath(f.path, x)
      g == GetMember(p.obj, p.prop, x)
  IN IF p.ex # NoEx THEN Throw(p.ex)
     ELSE IF g.ex # NoEx THEN Throw(g.ex)
     ELSE [Same EXCEPT !.out = sendResponse(f.id, g.val)]

\* A put handler that acknowledges the put and stores nothing
TryPutDropped(f, x) ==
  LET p == parsePath(f.path, x)
      w == PutMember(p.obj, p.prop, f.body, x)
  IN IF p.ex # NoEx THEN Throw(p.ex)
     ELSE IF w.ex # NoEx THEN Throw(w.ex)
     ELSE [Same EXCEPT !.out = sendResponse(f.id, Undefined)]

\* case "put"
TryPut(f, x) ==
  LET p == parsePath(f.path, x)
      w == PutMember(p.obj, p.prop, f.body, x)
  IN IF p.ex # NoEx THEN Throw(p.ex)
     ELSE IF w.ex # NoEx THEN Throw(w.ex)
     ELSE [Same EXCEPT !.heap = w.heap, !.out = sendResponse(f.id, Undefined)]

\* case "post"
TryPost(f, x) ==
  LET p == parsePath(f.path, x)
      g == GetMember(p.obj, p.prop, x)
      r == Invoke(g.val, CallArgs(f.body), x)
  IN IF p.ex # NoEx THEN Throw(p.ex)
     ELSE IF g.ex # NoEx THEN Throw(g.ex)
     ELSE [Same EXCEPT !.ex = r.ex, !.remoteInfo = r.remoteInfo, !.localInfo = r.localInfo,
                       !.applied = IF g.val.cls = "function"
                                   THEN <<[obj |-> p.obj, method |-> g.val.msg, args |-> CallArgs(f.body),
                                           ret |-> r.val]>>
                                   ELSE <<>>,
                       !.out = IF r.ex = NoEx THEN sendResponse(f.id, r.val) ELSE <<>>]

\* The argument of the continuation: the body, or for a resp with an error
\* code an Error with that code and the body's (else the code's) text
Completion(f) ==
  IF f.error = 0 THEN f.body
  ELSE Error(f.error, IF Truthy(f.body) THEN f.body.msg ELSE ToString(f.error))

\* A resp handler that completes the oldest pending request when the id of
\* the resp matches none
TryRespAny(f, x) ==
  LET id == IF f.id \in DOMAIN pendingRequests \/ DOMAIN pendingRequests = {}
            THEN f.id
            ELSE CHOOSE i \in DOMAIN pendingRequests :
                   \A j \in DOMAIN pendingRequests : pendingRequests[i] <= pendingRequests[j]
  IN IF id \in DOMAIN pendingRequests
     THEN LET r == pendingRequests[id]
              called == [Same EXCEPT !.calls = [calls EXCEPT ![r] = @ + 1],
                                     !.inv = <<[req |-> r, arg |-> Completion(f)]>>]
          IN IF x # NoEx
             THEN [called EXCEPT !.ex = x]
             ELSE [called EXCEPT !.pendingRequests = Delete(pendingRequests, id)]
     ELSE Same

\* case "resp"; x is what the continuation raises
TryResp(f, x) ==
  IF f.id \in DOMAIN pendingRequests
  THEN LET r == pendingRequests[f.id]
           called == [Same EXCEPT !.calls = [calls EXCEPT ![r] = @ + 1],
                                  !.inv = <<[req |-> r, arg |-> Completion(f)]>>]
       IN IF x # NoEx
          THEN [called EXCEPT !.ex = x]
          ELSE [called EXCEPT !.pendingRequests = Delete(pendingRequests, f.id)]
  ELSE Same

\* What a listener does besides returning or raising: it calls
\* removeListener(path, l) for the path of the event it is invoked with
Remove(l) == Val("remove", 0, l)
Removes == {Remove(l) : l \in Listeners}

\* for (i = 0; i < listeners.length; ++i) listeners[i].apply(this, eventArgs)
\* from index i on, after n invocations.  ls is the array priv.listeners[path]
\* held when the loop began; removeListener splices that same array.  The
\* k-th listener invoked does x: it returns (NoEx), raises x, or removes a
\* listener.  [ex, heard, ls, emptied]; emptied: the removal took the last
\* listener, so the registration was deleted and an unlisten frame was sent.
RECURSIVE Dispatch(_, _, _, _, _, _, _)
Dispatch(ls, i, n, x, k, args, emptied) ==
  IF i > Len(ls) THEN [ex |-> NoEx, heard |-> <<>>, ls |-> ls, emptied |-> emptied]
  ELSE LET call == [fn |-> ls[i], args |-> args]
           acts == (n + 1 = k)
           after == IF acts /\ x.cls = "remove" THEN Removed(ls, x.msg) ELSE ls
           rest == Dispatch(after, i + 1, n + 1, x, k, args, emptied \/ Len(after) = 0)
       IN IF acts /\ x # NoEx /\ x.cls # "remove"
          THEN [ex |-> x, heard |-> <<call>>, ls |-> ls, emptied |-> emptied]
          ELSE [rest EXCEPT !.heard = <<call>> \o @]

\* case "event"; what the k-th listener invoked does is x
TryEvent(f, x, k) ==
  IF OwnPath(listeners, f.path)
  THEN LET d == Dispatch(listeners[f.path], 1, 0, x, k, EventArgs(f.body), FALSE)
           unlisten == IF d.emptied THEN <<Frame("unlisten", 0, f.path, Undefined, 0)>> ELSE <<>>
       IN [Same EXCEPT !.ex = d.ex,
                       !.heard = d.heard,
                       !.listeners = IF d.emptied THEN Delete(listeners, f.path)
                                     ELSE [listeners EXCEPT ![f.path] = d.ls],
                       !.out = unlisten \o (IF d.ex = NoEx THEN sendResponse(f.id, Undefined) ELSE <<>>)]
  ELSE Ack(f)

\* parsed.obj.addListener(parsed.prop, sender) / removeListener: the senders
\* attached after it.  Only the emitter has these methods; x is what its
\* addListener raises.
Attach(obj, prop, sender, x) ==
  LET m == GetMember(obj, "addListener", NoEx)
  IN IF m.ex # NoEx THEN [ex |-> m.ex, attached |-> attached]
     ELSE IF m.val.cls # "function" THEN [ex |-> TypeError, attached |-> attached]
     ELSE IF x # NoEx THEN [ex |-> x, attached |-> attached]
     ELSE [ex |-> NoEx, attached |-> attached \cup {[source |-> prop, sender |-> sender]}]

Detach(obj, prop, sender) ==
  LET m == GetMember(obj, "removeListener", NoEx)
  IN IF m.ex # NoEx THEN [ex |-> m.ex, attached |-> attached]
     ELSE IF m.val.cls # "function" THEN [ex |-> TypeError, attached |-> attached]
     ELSE [ex |-> NoEx, attached |-> attached \ {[source |-> prop, sender |-> sender]}]

\* case "listen"
TryListen(f, x) ==
  IF f.path \in eventSenders \/ IsInherited(f.path) THEN Ack(f)
  ELSE LET p == parsePath(f.path, NoEx)
           a == Attach(p.obj, p.prop, f.path, x)
       IN IF p.ex # NoEx THEN Throw(p.ex)
          ELSE [Same EXCEPT !.eventSenders = eventSenders \cup {f.path},
                            !.attached = a.attached,
                            !.ex = a.ex,
                            !.out = IF a.ex = NoEx THEN sendResponse(f.id, Undefined) ELSE <<>>]

\* case "unlisten"
TryUnlisten(f) ==
  IF f.path \in eventSenders \/ IsInherited(f.path)
  THEN LET p == parsePath(f.path, NoEx)
           d == Detach(p.obj, p.prop, f.path)
       IN IF p.ex # NoEx THEN Throw(p.ex)
          ELSE IF d.ex # NoEx THEN Throw(d.ex)
          ELSE [Same EXCEPT !.eventSenders = eventSenders \ {f.path},
                            !.attached = d.attached,
                            !.out = sendResponse(f.id, Undefined)]
  ELSE Ack(f)

\* A binary branch that also acknowledges the frame with a resp
TryBinaryAnswered == [Same EXCEPT !.out = <<Sentinel, Frame("resp", 0, NoPath, Undefined, 0)>>]

\* if (event.data instanceof ArrayBuffer): send the sentinel and return
TryBinary == [Same EXCEPT !.out = <<Sentinel>>]

\* The try block.  On a closed engine `priv` is undefined and the first use
\* of it raises a TypeError (an unparseable text raises a SyntaxError before).
Try(f, x, k) ==
  IF f.type = "garbage" THEN Throw(Error(0, "SyntaxError"))
  ELSE IF ~open THEN Throw(TypeError)
  ELSE IF f.type = "binary" THEN TryBinary
  ELSE IF f.type = "get" THEN TryGet(f, x)
  ELSE IF f.type = "put" THEN TryPut(f, x)
  ELSE IF f.type = "post" THEN TryPost(f, x)
  ELSE IF f.type = "resp" THEN TryResp(f, x)
  ELSE IF f.type = "event" THEN TryEvent(f, x, k)
  ELSE IF f.type = "listen" THEN TryListen(f, x)
  ELSE IF f.type = "unlisten" THEN TryUnlisten(f)
  ELSE Throw(Error(0, "Request type is not supported."))

\* if (message.$type != "resp") requestId = message.id
RequestIdOf(f) == IF f.type \in {"binary", "garbage", "resp"} THEN 0 ELSE f.id

\* The catch block: console.log(ex.stack) raises when ex is null; a request
\* with an id is answered through sendResponse, which reads this._priv.
\* [out, escaped] after the try block left with t
Catch(f, t) ==
  IF t.ex = NoEx THEN [out |-> t.out, escaped |-> FALSE]
  ELSE IF t.ex.cls \in {"null", "undefined"} THEN [out |-> t.out, escaped |-> TRUE]
  ELSE IF RequestIdOf(f) = 0 THEN [out |-> t.out, escaped |-> FALSE]
  ELSE IF ~open THEN [out |-> t.out, escaped |-> TRUE]
  ELSE [out |-> t.out \o sendResponse(RequestIdOf(f), t.ex), escaped |-> FALSE]

\* The paths the peer listens to after frame f was handled: a listen or
\* unlisten counts when the try block ran to its end
PeerListensAfter(f, t) ==
  IF t.ex # NoEx THEN peerListens
  ELSE IF f.type = "listen" THEN peerListens \cup {f.path}
  ELSE IF f.type = "unlisten" THEN peerListens \ {f.path}
  ELSE peerListens

\* socketMessage, the frame-received handler, on frame f
socketMessage(o, f, x, k) ==
  \E t \in {Try(f, x, k)} : \E c \in {Catch(f, t)} :
     /\ \A r \in DOMAIN t.calls : t.calls[r] <= MaxCalls
     /\ pendingRequests' = t.pendingRequests
     /\ eventSenders' = t.eventSenders
     /\ attached' = t.attached
     /\ heap' = t.heap
     /\ remoteInfo' = t.remoteInfo
     /\ localInfo' = t.localInfo
     /\ calls' = t.calls
     /\ inv' = t.inv
     /\ heard' = t.heard
     /\ applied' = t.applied
     /\ listeners' = t.listeners
     /\ net' = NetAfter(c.out)
     /\ peerListens' = PeerListensAfter(f, t)
     /\ out' = c.out
     /\ escaped' = c.escaped
     /\ caught' = (t.ex # NoEx)
     /\ last' = o
     /\ UNCHANGED <<open, closeCalls, root, requestId, issued>>

\* ------------------------------------------------------------------ inputs
\* What user code raises in one operation (NoEx: nothing)
Raises == {NoEx} \cup Thrown

\* Ids of inbound requests and events (0: the frame has no id)
ReqIds == {0, 1}

\* Ids of inbound resp frames
RespIds == (0..(MaxId + 1)) \cup {InheritedId}

\* Error codes of inbound resp frames (0: none)
RespErrors == {0, 7}

FramePaths(t) ==
  IF t = "get" THEN {<<"mode">>, <<"mode", "">>, <<"missing">>, <<"nosuch", "x">>, <<"bad">>, HelloPath}
  ELSE IF t = "put" THEN {<<"mode">>, <<"missing">>, <<"nosuch", "x">>, <<"bad">>, HelloPath}
  ELSE IF t = "post" THEN {<<"op">>, <<"missing">>, <<"nosuch", "x">>, <<"bad">>, HelloPath}
  ELSE IF t \in {"listen", "unlisten"} THEN {EventPath, <<"nosuch", "x">>, ProtoPath}
  ELSE IF t = "event" THEN ApiPaths
  ELSE {<<"mode">>}

FrameBodies(t) ==
  IF t = "put" THEN {Datum("v1"), Datum("v2")}
  ELSE IF t = "post" THEN {Undefined, Datum("v1"), EmptyArray, PairArray}
  ELSE IF t = "event" THEN {Undefined, Datum("v1"), PairArray}
  ELSE {Undefined}

FramesOf(types) ==
  UNION {{Frame(t, i, p, b, 0) : i \in ReqIds, p \in FramePaths(t), b \in FrameBodies(t)} :
         t \in types}

AccessFrames == FramesOf({"get", "put", "post"})
SubscriptionFrames == FramesOf({"listen", "unlisten"})

EventFrames ==
  {Frame("event", i, p, b, 0) : i \in ReqIds, p \in FramePaths("event"), b \in FrameBodies("event")}

RespFrames == {Frame("resp", i, NoPath, Datum("v1"), e) : i \in RespIds, e \in RespErrors}

OtherFrames == {Sentinel, Frame("garbage", 0, NoPath, Undefined, 0)} \cup FramesOf({"bogus"})

\* The arguments of a local emission and the body of the event frame a
\* sender makes of them: none, the single argument, or the array of them
Emissions == {<<>>, <<Datum("v1")>>, <<Datum("v1"), Datum("v2")>>, <<PairArray>>}
SenderBody(args) ==
  IF Len(args) = 0 THEN Undefined
  ELSE IF Len(args) = 1 THEN args[1]
  ELSE PairArray

RECURSIVE SeqOf(_)
SeqOf(S) == IF S = {} THEN <<>> ELSE LET e == CHOOSE e \in S : TRUE IN <<e>> \o SeqOf(S \ {e})

\* The handling of frame f reaches user code, which may raise: an accessor or
\* a method of the graph, the emitter's addListener, a listener, a continuation
UserCode(f) ==
  \/ f.type \in {"get", "put", "post"} /\ f.path \in {<<"bad">>, <<"op">>}
  \/ f.type = "listen" /\ f.path = EventPath
  \/ f.type = "resp" /\ f.id \in DOMAIN pendingRequests

\* The body of the peer's answer to the r-th request
AnswerBody(r) == Datum(ToString(r))

\* The errors the handling of a request raises on a peer that runs this
\* engine: with and without a number, with and without a message text
RaisedErrors == {Error(7, "coded"), Error(7, ""), Error(0, "plain"), Error(0, "")}

\* ----------------------------------------------------------------- actions
\* No run of the addListener / removeListener scenario is under way
Idle == [path |-> NoPath, listener |-> NoListener, n |-> 0, adds |-> 0, removes |-> 0,
         listens |-> 0, unlistens |-> 0]

\* The engine after new CogSocket(websocket, root)
New ==
  /\ open = TRUE
  /\ closeCalls = 0
  /\ root \in BOOLEAN
  /\ heap = [n \in {"mode"} |-> Datum("v1")]
  /\ requestId = 0
  /\ pendingRequests = <<>>
  /\ listeners = <<>>
  /\ eventSenders = {}
  /\ attached = {}
  /\ remoteInfo = Undefined
  /\ localInfo = 0
  /\ issued = <<>> /\ calls = <<>> /\ answered = <<>>
  /\ net = [p \in ApiPaths |-> 0]
  /\ peerListens = {}
  /\ out = <<>> /\ inv = <<>> /\ heard = <<>> /\ applied = <<>>
  /\ escaped = FALSE /\ caught = FALSE
  /\ last = ApiOp("new", NoPath, NoListener, FALSE)

Init == New /\ scenario = Idle

\* The application calls get, put or post
CallRequest ==
  /\ \E t \in {"get", "put", "post"}, cont \in BOOLEAN :
       Request(t, <<"mode">>, IF t = "get" THEN Undefined ELSE Datum("v1"), cont)
  /\ UNCHANGED scenario

\* The application calls addListener
CallAddListener ==
  /\ \E p \in ApiPaths, l \in Listeners, cont \in BOOLEAN, x \in {NoEx, Error(0, "plain")} :
       /\ x = NoEx \/ (cont /\ open /\ OwnPath(listeners, p))
       /\ addListener(p, l, cont, x)
  /\ UNCHANGED scenario

\* The application calls removeListener
CallRemoveListener ==
  /\ \E p \in ApiPaths, l \in Listeners \cup {NoListener}, cont \in BOOLEAN,
        x \in {NoEx, Error(0, "plain")} :
       /\ x = NoEx \/ (cont /\ open)
       /\ removeListener(p, l, cont, x)
  /\ UNCHANGED scenario

\* The application calls close
CallClose == close /\ UNCHANGED scenario

\* The transport delivers a get, put or post; the member it reaches raises x
ReceiveAccess ==
  /\ \E f \in AccessFrames, x \in Raises :
       /\ x = NoEx \/ (open /\ UserCode(f))
       /\ socketMessage(Op("message", f, 0), f, x, 1)
  /\ UNCHANGED <<answered, scenario>>

\* The transport delivers a listen or unlisten; the emitter's addListener raises x
ReceiveSubscription ==
  /\ \E f \in SubscriptionFrames, x \in Raises :
       /\ x = NoEx \/ (open /\ UserCode(f))
       /\ socketMessage(Op("message", f, 0), f, x, 1)
  /\ UNCHANGED <<answered, scenario>>

\* The transport delivers a binary frame, an unparseable text or a frame of
\* an unknown type
ReceiveOther ==
  /\ \E f \in OtherFrames :
       socketMessage(Op("message", f, 0), f, NoEx, 1)
  /\ UNCHANGED <<answered, scenario>>

\* The event source sensor of the local graph emits "changed": every sender
\* attached to it sends an event frame through the websocket it captured
Emit ==
  /\ root
  /\ \E args \in Emissions :
       /\ out' = SeqOf({Frame("event", 0, a.sender, SenderBody(args), 0) :
                          a \in {b \in attached : b.source = "changed"}})
       /\ last' = Op("emit", Frame("event", 0, EventPath, SenderBody(args), 0), 0)
  /\ inv' = <<>> /\ heard' = <<>> /\ applied' = <<>> /\ escaped' = FALSE /\ caught' = FALSE
  /\ UNCHANGED <<engine, history, scenario>>

\* The transport delivers an event frame; the k-th listener invoked for it
\* raises, or removes a listener of the event's path
ReceiveEvent ==
  /\ \E f \in EventFrames, x \in Raises \cup Removes, k \in 1..MaxListeners :
       /\ \/ x = NoEx /\ k = 1
          \/ open /\ OwnPath(listeners, f.path) /\ k <= Len(listeners[f.path])
       /\ socketMessage(Op("message", f, 0), f, x, k)
  /\ UNCHANGED <<answered, scenario>>

\* The transport delivers a resp frame that is not the peer's first answer to
\* a request: one with an unknown id or with no id, or a further resp for a
\* request that was answered
ReceiveResp ==
  /\ \E f \in RespFrames, x \in Raises :
       /\ f.id \in DOMAIN pendingRequests => answered[pendingRequests[f.id]]
       /\ x = NoEx \/ (open /\ UserCode(f))
       /\ socketMessage(Op("message", f, 0), f, x, 1)
  /\ UNCHANGED <<answered, scenario>>

\* The transport delivers the peer's answer to the r-th request
ReceiveAnswer ==
  /\ \E r \in 1..Len(issued), e \in RespErrors, x \in Raises :
       /\ ~answered[r]
       /\ x = NoEx \/ (open /\ issued[r] \in DOMAIN pendingRequests)
       /\ socketMessage(Op("message", Frame("resp", issued[r], NoPath, AnswerBody(r), e), r),
                        Frame("resp", issued[r], NoPath, AnswerBody(r), e), x, 1)
       /\ answered' = [answered EXCEPT ![r] = TRUE]
  /\ UNCHANGED scenario

\* The peer runs this engine; its handling of the r-th request raised the
\* Error e (coded: e has a number member), its catch clause passed e to
\* sendResponse, and the transport delivers the frame that made
ReceiveFailure ==
  /\ \E r \in 1..Len(issued), e \in RaisedErrors, coded \in BOOLEAN, x \in Raises :
       /\ ~answered[r]
       /\ e.number # 0 => coded
       /\ x = NoEx \/ (open /\ issued[r] \in DOMAIN pendingRequests)
       /\ socketMessage([Op("message", sendResponse(issued[r], e)[1], r)
                           EXCEPT !.raised = e, !.coded = coded],
                        sendResponse(issued[r], e)[1], x, 1)
       /\ answered' = [answered EXCEPT ![r] = TRUE]
  /\ UNCHANGED scenario

\* The peer runs this engine and holds a sender for path p, which this
\* engine listens to; the peer's graph emits at p with arguments args and the
\* transport delivers the event frame the sender made.  The k-th listener
\* invoked raises, or removes a listener of the path
ReceiveEmission ==
  /\ \E p \in ApiPaths, args \in Emissions, x \in Raises \cup Removes, k \in 1..MaxListeners :
       /\ open
       /\ OwnPath(listeners, p)
       /\ (x = NoEx /\ k = 1) \/ k <= Len(listeners[p])
       /\ socketMessage([Op("emission", Frame("event", 0, p, WireBody(SenderBody(args)), 0), 0)
                           EXCEPT !.args = args],
                        Frame("event", 0, p, WireBody(SenderBody(args)), 0), x, k)
  /\ UNCHANGED <<answered, scenario>>

Next ==
  \/ CallRequest
  \/ CallAddListener
  \/ CallRemoveListener
  \/ CallClose
  \/ ReceiveAccess
  \/ ReceiveSubscription
  \/ ReceiveOther
  \/ ReceiveEvent
  \/ Emit
  \/ ReceiveResp
  \/ ReceiveAnswer
  \/ ReceiveFailure
  \/ ReceiveEmission

Spec == Init /\ [][Next]_vars

\* Emissions on a peer that runs this engine, relayed to local listeners
NextRelay ==
  \/ CallAddListener
  \/ CallRemoveListener
  \/ ReceiveEmission

SpecRelay == Init /\ [][NextRelay]_vars

\* Requests whose handling fails on a peer that runs this engine
NextFailure ==
  \/ CallRequest
  \/ CallClose
  \/ ReceiveFailure

SpecFailure == Init /\ [][NextFailure]_vars

\* The application's calls alone
NextCalls ==
  \/ CallRequest
  \/ CallAddListener
  \/ CallRemoveListener
  \/ CallClose

SpecCalls == Init /\ [][NextCalls]_vars

\* The engine's listener registrations alone
NextSubscribe ==
  \/ CallAddListener
  \/ CallRemoveListener

SpecSubscribe == Init /\ [][NextSubscribe]_vars

\* The engine as a subscriber: listener registrations and inbound events
NextEvents ==
  \/ CallAddListener
  \/ CallRemoveListener
  \/ ReceiveEvent

SpecEvents == Init /\ [][NextEvents]_vars

\* The engine as the peer's window on the local event source
NextEmit ==
  \/ CallClose
  \/ ReceiveSubscription
  \/ Emit

SpecEmit == Init /\ [][NextEmit]_vars

\* The calls that fill the engine's tables and the inbound frames that
\* address no member: subscriptions, binary frames, unparseable and unknown
\* frames
NextFrames ==
  \/ CallRequest
  \/ CallAddListener
  \/ CallClose
  \/ ReceiveSubscription
  \/ ReceiveOther

SpecFrames == Init /\ [][NextFrames]_vars

\* The engine as a subscriber whose listen and unlisten requests are answered
NextListen ==
  \/ CallAddListener
  \/ CallRemoveListener
  \/ ReceiveAnswer

SpecListen == Init /\ [][NextListen]_vars

\* The engine as a peer's client: requests and the resp frames for them
NextCorrelate ==
  \/ CallRequest
  \/ CallClose
  \/ ReceiveResp
  \/ ReceiveAnswer

SpecCorrelate == Init /\ [][NextCorrelate]_vars

\* The engine as a peer's server: inbound frames
NextServer ==
  \/ CallClose
  \/ ReceiveAccess
  \/ ReceiveOther
  \/ ReceiveResp

SpecServer == Init /\ [][NextServer]_vars

\* N calls addListener(p, f), then N calls removeListener(p, f), on a new engine
Listens(fs, p) == Cardinality({i \in 1..Len(fs) : fs[i].type = "listen" /\ fs[i].path = p})
Unlistens(fs, p) == Cardinality({i \in 1..Len(fs) : fs[i].type = "unlisten" /\ fs[i].path = p})

InitScenario ==
  /\ New
  /\ scenario \in {[Idle EXCEPT !.path = p, !.listener = l, !.n = n] :
                     p \in ApiPaths, l \in Listeners, n \in 1..MaxListeners}

Counted ==
  [scenario EXCEPT !.listens = @ + Listens(out', scenario.path),
                   !.unlistens = @ + Unlistens(out', scenario.path)]

ScenarioAdd ==
  /\ scenario.adds < scenario.n
  /\ \E cont \in BOOLEAN, x \in {NoEx, Error(0, "plain")} :
       /\ x = NoEx \/ (cont /\ OwnPath(listeners, scenario.path))
       /\ addListener(scenario.path, scenario.listener, cont, x)
  /\ scenario' = [Counted EXCEPT !.adds = @ + 1]

ScenarioRemove ==
  /\ scenario.adds = scenario.n
  /\ scenario.removes < scenario.n
  /\ \E cont \in BOOLEAN, x \in {NoEx, Error(0, "plain")} :
       /\ x = NoEx \/ cont
       /\ removeListener(scenario.path, scenario.listener, cont, x)
  /\ scenario' = [Counted EXCEPT !.removes = @ + 1]

NextScenario ==
  \/ ScenarioAdd
  \/ ScenarioRemove

SpecScenario == InitScenario /\ [][NextScenario]_vars

\* ------------------------------------------------------------------ claims

\* C1: after N > 0 calls addListener(p, f) followed by N calls
\* removeListener(p, f) on an engine with no registration for p, exactly one
\* listen and exactly one unlisten frame for p were sent and no registration
\* for p remains.
C1_OneListenOneUnlisten ==
  (scenario.n > 0 /\ scenario.removes = scenario.n) =>
    /\ scenario.listens = 1
    /\ scenario.unlistens = 1
    /\ ~OwnPath(listeners, scenario.path)

\* C2: after any addListener and removeListener calls, for every path the
\* listen frames sent minus the unlisten frames sent is 0 or 1, and is 1
\* exactly when a registration for the path exists.
C2_OneSubscriptionPerPath ==
  \A p \in ApiPaths : /\ net[p] \in {0, 1}
                      /\ net[p] = 1 <=> OwnPath(listeners, p)

\* C3: the ids assigned to the 1st, 2nd, 3rd ... request sent with a
\* continuation are 1, 2, 3, ...; 0 is never assigned; the id after the
\* maximum id is 1.
C3_IdsCountUpAndWrap ==
  \A i \in 1..Len(issued) : issued[i] = ((i - 1) % MaxId) + 1

\* C3 witness: the maximum id was assigned and the next request got 1
C3_Wrapped ==
  /\ Len(issued) > MaxId
  /\ issued[MaxId] = MaxId
  /\ issued[MaxId + 1] = 1

\* C4: every request sent with a continuation whose resp has not arrived has
\* its own PendingRequest, under a non-zero id no other such request shares,
\* also after the id counter has wrapped.
C4_OutstandingHavePending ==
  open => \A r \in 1..Len(issued) :
            ~answered[r] => /\ issued[r] # 0
                            /\ issued[r] \in DOMAIN pendingRequests
                            /\ pendingRequests[issued[r]] = r

\* C5: the continuation of a request is invoked at most once over any
\* sequence of inbound frames, whatever it does (it may raise).
C5_CompletedAtMostOnce ==
  \A r \in 1..Len(calls) : calls[r] <= 1

\* C6: handling a resp whose id matches no PendingRequest raises nothing,
\* invokes no continuation, sends no frame and leaves the pending-request,
\* listener and event-sender tables unchanged.
C6_UnmatchedRespIgnored ==
  [][(/\ last'.op = "message"
      /\ last'.frame.type = "resp"
      /\ last'.frame.id \notin DOMAIN pendingRequests)
     => /\ ~escaped'
        /\ open => ~caught'
        /\ inv' = <<>>
        /\ heard' = <<>>
        /\ out' = <<>>
        /\ pendingRequests' = pendingRequests
        /\ listeners' = listeners
        /\ eventSenders' = eventSenders]_vars

\* C6 witness: a resp with an id the table does not hold was handled while
\* other requests were pending
C6_UnmatchedRespHandled ==
  /\ open
  /\ last.op = "message"
  /\ last.frame.type = "resp"
  /\ last.frame.id # 0
  /\ last.frame.id \notin DOMAIN pendingRequests
  /\ inv = <<>>
  /\ DOMAIN pendingRequests # {}

\* C7: each continuation is invoked with the body (or error) of the resp
\* that answers its own request, in whatever order the resp frames arrive,
\* and every outstanding request whose resp arrives is completed.
C7_AnswerCompletesItsRequest ==
  (open /\ last.op = "message" /\ last.re # 0) =>
    inv = <<[req |-> last.re, arg |-> Completion(last.frame)]>>

\* A single resp frame for id that carries an error code
IsErrorResp(fs, id) ==
  /\ Len(fs) = 1
  /\ fs[1].type = "resp"
  /\ fs[1].id = id
  /\ fs[1].error # 0

\* C8: when the handling of an inbound message other than a resp fails, the
\* engine sends exactly one resp with the message's id and a non-zero error
\* code if the id is non-zero, and no frame if the message has no id.
C8_FailureIsAnswered ==
  (open /\ last.op = "message" /\ last.frame.type # "resp" /\ caught) =>
    IF RequestIdOf(last.frame) # 0
    THEN IsErrorResp(out, last.frame.id)
    ELSE out = <<>>

\* C9: no inbound frame makes an exception escape the frame-received
\* handler, in any state, also after close().
C9_NothingEscapes ==
  last.op = "message" => ~escaped

\* The path does not resolve on the local graph now: an intermediate part or
\* the leaf member is missing
Unresolved(path) ==
  LET p == parsePath(path, NoEx)
  IN \/ p.ex # NoEx
     \/ p.obj.cls \in {"undefined", "null"}
     \/ GetMember(p.obj, p.prop, NoEx).val = Undefined

\* C10: an inbound get, put or post with an id whose path does not resolve
\* (intermediate part or leaf member missing) is answered with a resp that
\* carries an error code, never with a success resp.
C10_UnresolvedIsError ==
  [][(/\ open
      /\ last'.op = "message"
      /\ last'.frame.type \in {"get", "put", "post"}
      /\ last'.frame.id # 0
      /\ Unresolved(last'.frame.path))
     => IsErrorResp(out', last'.frame.id)]_vars

\* The path addresses a data member of the root object that exists now (one
\* part, or one part and a trailing slash), and the member it addresses
Writable(path) ==
  /\ root
  /\ path # NoPath
  /\ Len(StripSlash(path)) = 1
  /\ StripSlash(path)[1] \in DOMAIN heap
Member(path) == StripSlash(path)[1]

\* C11: an inbound put(p, v) with an id on a writable member is answered
\* with a resp with that id, no body and no error, and stores v; an inbound
\* get(p) with an id is answered with the member's value; the value of a
\* member changes in no step but a put to it - so every later get(p) with no
\* put to p in between is answered with v.
C11_PutThenGet ==
  [][/\ (/\ open
         /\ last'.op = "message"
         /\ last'.frame.type = "put"
         /\ Writable(last'.frame.path))
        => /\ heap'[Member(last'.frame.path)] = last'.frame.body
           /\ last'.frame.id # 0 =>
                out' = <<Frame("resp", last'.frame.id, NoPath, Undefined, 0)>>
     /\ (/\ open
         /\ last'.op = "message"
         /\ last'.frame.type = "get"
         /\ last'.frame.id # 0
         /\ Writable(last'.frame.path))
        => out' = <<Frame("resp", last'.frame.id, NoPath, heap[Member(last'.frame.path)], 0)>>
     /\ \A n \in DOMAIN heap :
          ~(/\ last'.op = "message"
            /\ last'.frame.type = "put"
            /\ Writable(last'.frame.path)
            /\ Member(last'.frame.path) = n)
          => n \in DOMAIN heap' /\ heap'[n] = heap[n]]_vars

\* C11 witness: a get of mode is answered with the value a put stored
C11_ReadBack ==
  /\ open
  /\ last.op = "message"
  /\ last.frame.type = "get"
  /\ last.frame.path = <<"mode">>
  /\ last.frame.id # 0
  /\ heap["mode"] = Datum("v2")
  /\ out = <<Frame("resp", last.frame.id, NoPath, Datum("v2"), 0)>>

\* C12: an inbound post to a path whose last part names an operation (op of
\* the root, hello of the connection object) invokes it exactly once on the
\* object the preceding parts address, with the k elements of the body as
\* positional arguments when the body is an array and with the body as the
\* single argument otherwise; the resp body is what the operation returned.
C12_PostInvokesOnce ==
  (/\ open
   /\ last.op = "message"
   /\ last.frame.type = "post"
   /\ \/ root /\ last.frame.path = <<"op">>
      \/ last.frame.path = HelloPath)
  => /\ Len(applied) = 1
     /\ applied[1].obj = (IF last.frame.path = HelloPath THEN ConnectionObject ELSE RootObject)
     /\ applied[1].method = last.frame.path[Len(last.frame.path)]
     /\ applied[1].args = (IF last.frame.body \in {EmptyArray, PairArray}
                           THEN Elements(last.frame.body)
                           ELSE <<last.frame.body>>)
     /\ (~caught /\ last.frame.id # 0)
          => out = <<Frame("resp", last.frame.id, NoPath, applied[1].ret, 0)>>

\* C12 witness: op was invoked with the two elements of an array body and
\* its return value was sent back
C12_TwoArguments ==
  /\ open
  /\ last.op = "message"
  /\ last.frame.type = "post"
  /\ last.frame.path = <<"op">>
  /\ last.frame.body = PairArray
  /\ Len(applied) = 1
  /\ Len(applied[1].args) = 2
  /\ Len(out) = 1
  /\ out[1].body = Datum("ret")

\* C13: on an inbound binary frame an open engine sends exactly one frame,
\* the 4-byte sentinel 00 00 E0 80, no resp or other frame, invokes no
\* continuation, listener or operation, and leaves the pending-request,
\* listener and event-sender tables and the local graph unchanged.
C13_BinaryGetsSentinel ==
  [][(open /\ last'.op = "message" /\ last'.frame.type = "binary")
     => /\ out' = <<Frame("binary", 0, NoPath, Undefined, 0)>>
        /\ inv' = <<>> /\ heard' = <<>> /\ applied' = <<>>
        /\ ~escaped' /\ ~caught'
        /\ pendingRequests' = pendingRequests
        /\ listeners' = listeners
        /\ eventSenders' = eventSenders
        /\ graph' = graph]_vars

\* C13 witness: a binary frame was answered while all three tables held entries
C13_BinaryWhileBusy ==
  /\ open
  /\ last.op = "message"
  /\ last.frame.type = "binary"
  /\ Len(out) = 1
  /\ DOMAIN pendingRequests # {}
  /\ DOMAIN listeners # {}
  /\ eventSenders # {}

\* C14: on an inbound event for path p every listener registered for p when
\* the frame arrives is invoked exactly once, in registration order, with
\* the unwrapped body (no argument for an absent body, the body for a body
\* that is no array, its elements for an array), whatever the listeners do
\* during the dispatch (a listener may remove itself or another listener).
C14_EveryListenerHears ==
  [][(/\ open
      /\ last'.op = "message"
      /\ last'.frame.type = "event"
      /\ OwnPath(listeners, last'.frame.path))
     => heard' = [i \in 1..Len(listeners[last'.frame.path]) |->
                   [fn |-> listeners[last'.frame.path][i],
                    args |-> IF last'.frame.body = Undefined THEN <<>>
                             ELSE IF last'.frame.body = PairArray
                                  THEN <<Datum("v1"), Datum("v2")>>
                                  ELSE <<last'.frame.body>>]]]_vars

\* The resp frames among the frames fs
Resps(fs) == SelectSeq(fs, LAMBDA m : m.type = "resp")

\* C15: every inbound event frame with a non-zero id is answered with
\* exactly one resp that has that id, no body and no error code, whether or
\* not listeners are registered for its path and whatever they do; an event
\* frame without an id is answered with no frame.
C15_EventAcknowledged ==
  (open /\ last.op = "message" /\ last.frame.type = "event")
  => Resps(out) = (IF last.frame.id # 0
                   THEN <<Frame("resp", last.frame.id, NoPath, Undefined, 0)>>
                   ELSE <<>>)

\* The event frames for path p among the frames fs
EventsFor(fs, p) == SelectSeq(fs, LAMBDA m : m.type = "event" /\ m.path = p)

\* C16: each local emission at the event source sensor/changed produces
\* exactly one outbound event frame for that path, with the emitted payload,
\* if an inbound listen for the path was handled since the last inbound
\* unlisten for it (however many listen frames came), and none otherwise.
C16_EmissionForwardedOnce ==
  last.op = "emit"
  => EventsFor(out, EventPath) = (IF EventPath \in peerListens
                                  THEN <<Frame("event", 0, EventPath, last.frame.body, 0)>>
                                  ELSE <<>>)

\* C17: a request sent without a continuation is sent as a frame with no
\* id, creates no PendingRequest and leaves the id counter unchanged; the id
\* of a request sent with a continuation is the successor of the counter,
\* so it is the id it would have got without the fire-and-forget requests.
C17_FireAndForget ==
  [][/\ (/\ open
         /\ last'.op \in {"get", "put", "post", "addListener", "removeListener"}
         /\ ~last'.cont)
        => /\ \A i \in 1..Len(out') : out'[i].id = 0
           /\ pendingRequests' = pendingRequests
           /\ requestId' = requestId
           /\ issued' = issued
     /\ (/\ open
         /\ last'.op \in {"get", "put", "post", "addListener", "removeListener"}
         /\ last'.cont
         /\ out' # <<>>)
        => /\ out'[1].id = (IF requestId = MaxId THEN 1 ELSE requestId + 1)
           /\ requestId' = out'[1].id]_vars

\* C17 witness: a put without a continuation was sent between requests with
\* continuations
C17_SentWithoutId ==
  /\ open
  /\ last.op = "put"
  /\ ~last.cont
  /\ Len(out) = 1
  /\ out[1].id = 0
  /\ requestId > 0
  /\ DOMAIN pendingRequests # {}

\* C18: addListener(p, fn, onComplete) on a path that has a
\* ListenerRegistration sends no frame and invokes onComplete exactly once
\* before it returns; on a path with no registration it sends exactly one
\* listen frame for p and invokes onComplete only when the resp for that
\* listen request is handled, not before.
C18_CompletionOfAddListener ==
  [][/\ (open /\ last'.op = "addListener" /\ last'.cont)
        => IF OwnPath(listeners, last'.frame.path)
           THEN /\ out' = <<>>
                /\ inv' = <<[req |-> 0, arg |-> Undefined]>>
           ELSE /\ Len(out') = 1
                /\ out'[1].type = "listen"
                /\ out'[1].path = last'.frame.path
                /\ out'[1].id # 0
                /\ inv' = <<>>
     /\ (/\ open
         /\ last'.op = "message"
         /\ last'.re # 0
         /\ issued[last'.re] \in DOMAIN pendingRequests
         /\ pendingRequests[issued[last'.re]] = last'.re)
        => /\ Len(inv') = 1
           /\ inv'[1].req = last'.re]_vars

\* C19: after close() no continuation of a request that was pending then is
\* ever invoked, whatever frames the transport delivers (resp frames with the
\* ids of those requests included), and a further close() does not touch
\* the transport again.
C19_ClosedIsSilent ==
  [][~open => /\ calls' = calls
              /\ inv' = <<>>
              /\ closeCalls' = closeCalls]_vars

\* C19 witness: the answer to a request that was pending at close() was
\* delivered after it and its continuation has not been invoked
C19_AnswerAfterClose ==
  /\ ~open
  /\ closeCalls = 1
  /\ last.op = "message"
  /\ last.re # 0
  /\ calls[last.re] = 0

\* The path lies under the reserved prefix "@/"
Reserved(path) == Len(path) >= 2 /\ path[1] = "@"

\* C20: no inbound put or post under the reserved prefix changes the
\* connection object: the handshake operation stays present and invocable,
\* and a put under the prefix is rejected, that is answered with an error
\* resp when it carries an id.
C20_ConnectionObjectReadOnly ==
  /\ (/\ open
      /\ last.op = "message"
      /\ last.frame.type = "put"
      /\ last.frame.id # 0
      /\ Reserved(last.frame.path))
     => IsErrorResp(out, last.frame.id)
  /\ (/\ open
      /\ last.op = "message"
      /\ last.frame.type = "post"
      /\ last.frame.path = HelloPath)
     => /\ ~caught
        /\ Len(applied) = 1
        /\ applied[1].method = "hello"

\* C21: every inbound post to the handshake operation stores the identity
\* record it was given as the remote identity (the latest call wins) and is
\* answered with this endpoint's identity record; the record is computed on
\* the first call only and every later call returns that same record.
C21_Handshake ==
  [][(/\ open
      /\ last'.op = "message"
      /\ last'.frame.type = "post"
      /\ last'.frame.path = HelloPath)
     => /\ remoteInfo' = (IF last'.frame.body = PairArray THEN Datum("v1")
                          ELSE IF last'.frame.body = EmptyArray THEN Undefined
                          ELSE last'.frame.body)
        /\ localInfo' = (IF localInfo = 0 THEN 1 ELSE localInfo)
        /\ last'.frame.id # 0
             => out' = <<Frame("resp", last'.frame.id, NoPath, InfoRecord(localInfo'), 0)>>]_vars

\* C21 witness: a handshake that carried an identity was answered with this
\* endpoint's record, and the identity it carried is the remote identity
C21_HandshakeAnswered ==
  /\ open
  /\ last.op = "message"
  /\ last.frame.type = "post"
  /\ last.frame.path = HelloPath
  /\ last.frame.body = Datum("v1")
  /\ last.frame.id # 0
  /\ remoteInfo = Datum("v1")
  /\ localInfo = 1
  /\ out = <<Frame("resp", last.frame.id, NoPath, InfoRecord(1), 0)>>

\* C22: when the handling of a request raised, on a connected peer running
\* this engine, an error with code n and message m, the requester's
\* continuation is invoked exactly once, with an error whose code is n (-1
\* when the raised error has no code) and whose message is m (the
\* stringified code when m is empty).
C22_FailureReachesRequester ==
  [][(/\ open
      /\ last'.op = "message"
      /\ last'.raised.cls = "Error")
     => LET code == IF last'.coded THEN last'.raised.number ELSE 0 - 1
            text == IF last'.raised.msg = "" THEN ToString(code) ELSE last'.raised.msg
        IN /\ inv' = <<[req |-> last'.re, arg |-> Error(code, text)]>>
           /\ calls'[last'.re] = 1]_vars

\* C23: once close() has been called the engine hands no further frame to
\* the transport, whatever happens next: a frame the transport still
\* delivers, or an emission at an event source the peer had listened to.
C23_NoFrameAfterClose ==
  [][~open => out' = <<>>]_vars

\* C24: while the engine is open, the event-sender table holds an entry for
\* path p exactly when the forwarding function of p is attached as a
\* listener to the local graph's event source at p; a listen whose handling
\* fails leaves no entry.
C24_SendersAreAttached ==
  open => \A p \in eventSenders \cup {a.sender : a \in attached} :
            /\ p \in eventSenders
            /\ \E a \in attached : a.sender = p

\* C25: when this engine has a listener on path p of a connected peer
\* running this engine, an emission at p on the peer with the argument list
\* (a1, ..., ak) invokes the listener with exactly that argument list, also
\* when the single argument is itself an array.
C25_ArgumentsRelayed ==
  [][(/\ last'.op = "emission"
      /\ OwnPath(listeners, last'.frame.path)
      /\ listeners[last'.frame.path] # <<>>)
     => /\ heard' # <<>>
        /\ \A i \in 1..Len(heard') : heard'[i].args = last'.args]_vars

====
